---- MODULE Spec2Model ----
(***************************************************************************)
(* Model of app.py, the Streamlit dashboard script of the IEA critical     *)
(* minerals repository.  The script is re-run from top to bottom on every  *)
(* widget change: load (cached) -> sidebar selections -> three filters ->  *)
(* KPI aggregation -> indicators -> chart -> technology panel -> risk      *)
(* ranking -> raw-data expander.                                           *)
(*                                                                         *)
(* Text labels are sequences of one-character strings so that strip,       *)
(* split and the regular-expression search of str.contains can be          *)
(* computed character by character.  An optional value (a pandas NaN, a    *)
(* Python None) is the empty set; a present value v is the set {v}.        *)
(***************************************************************************)
EXTENDS Integers, Sequences, FiniteSets, TLC

----------------------------------------------------------------------------
(* Bounds of the model *)

\* longest time-series table explored in depth
MaxSeriesRows == 2
\* longest summary table explored in depth by the equality filters
MaxSummaryRows == 2
\* longest summary table explored in depth by the KPI aggregation
MaxKpiRows == 2
\* longest summary table explored in depth by the risk ranking
MaxRankRows == 3
\* longest technology table explored in depth
MaxTechRows == 2

----------------------------------------------------------------------------
(* Optional values *)

NA == {}

Some(v) == {v}

Val(o) == CHOOSE v \in o : TRUE

----------------------------------------------------------------------------
(* Text *)

\* Python's str.strip() with no argument: drop leading and trailing whitespace
RECURSIVE lstrip(_)
lstrip(s) ==
  IF s # <<>> /\ Head(s) = " " THEN lstrip(Tail(s)) ELSE s

RECURSIVE rstrip(_)
rstrip(s) ==
  IF s # <<>> /\ s[Len(s)] = " " THEN rstrip(SubSeq(s, 1, Len(s) - 1)) ELSE s

strip(s) == rstrip(lstrip(s))

\* mineral.split("-")[0]: the text before the first "-", all of it without one
RECURSIVE split_first(_)
split_first(s) ==
  IF s = <<>> \/ Head(s) = "-" THEN <<>>
  ELSE <<Head(s)>> \o split_first(Tail(s))

\* case folding of one character, as re.IGNORECASE compares them
lower(c) == IF c = "A" THEN "a" ELSE IF c = "B" THEN "b" ELSE c

\* one pattern character against one text character: "." is the regular
\* expression metacharacter that matches any character, every other character
\* of the alphabet used here is a literal
re_char(p, c, ignorecase) ==
  \/ p = "."
  \/ IF ignorecase THEN lower(p) = lower(c) ELSE p = c

\* re.search(pat, text): the pattern matches at some position of the text
re_search(pat, text, ignorecase) ==
  \E i \in 0..(Len(text) - Len(pat)) :
      \A j \in 1..Len(pat) : re_char(pat[j], text[i + j], ignorecase)

\* Series.str.contains(pat, case=False, na=False): regex defaults to True, so
\* the pattern is searched as a regular expression; the labels are strings
\* after astype(str), so na never applies
str_contains(text, pat) == re_search(pat, text, TRUE)

----------------------------------------------------------------------------
(* Labels and values of the input files explored *)

\* Labels are written over the alphabet a, A, b, s, t, ".", "-" and blank:
\* two letters in both cases, the separator of compound minerals, whitespace
\* for the loaders to strip, and "." for the characters a regular expression
\* reads as an operator.

Li == <<"a">>
LiUpper == <<"A">>
LiPadded == <<" ", "a">>
LiCompound == <<"a", " ", "-", "b">>
LiDot == <<"a", ".">>
LiB == <<"a", "b">>
Co == <<"b">>

STEPS == <<"s">>
APS == <<"t">>
STEPSPadded == <<"s", " ">>

SummaryColumns ==
  {"mineral", "scenario", "first_deficit_year", "max_deficit_kt",
   "gap_2030_kt", "gap_2040_kt"}

\* all sequences over U of length at most n
Tables(U, n) == UNION {[1..k -> U] : k \in 0..n}

----------------------------------------------------------------------------
(* Load data (app.py lines 14-38) *)

\* pd.read_csv: the rows in file order under a RangeIndex 0..n-1; a column the
\* file does not have is no column of the table (its cells are never read)
read_csv(raw, columns) ==
  [i \in 1..Len(raw) |->
     [c \in (DOMAIN raw[i]) \cup {"index"} |->
        IF c = "index" THEN i - 1
        ELSE IF c \in SummaryColumns \ columns THEN NA
        ELSE raw[i][c]]]

load_supply_demand(raw) ==
  LET t == read_csv(raw, SummaryColumns)
  IN [i \in 1..Len(t) |->
        [t[i] EXCEPT !.mineral = strip(@), !.scenario = strip(@)]]

load_summary(raw, columns) ==
  LET t == read_csv(raw, columns)
  IN [i \in 1..Len(t) |->
        [t[i] EXCEPT !.mineral = strip(@), !.scenario = strip(@)]]

load_tech_demand(raw) ==
  LET t == read_csv(raw, SummaryColumns)
  IN [i \in 1..Len(t) |->
        [t[i] EXCEPT !.mineral = strip(@), !.scenario = strip(@),
                     !.technology = strip(@)]]

----------------------------------------------------------------------------
(* State *)

VARIABLES
  cache,             \* st.cache_data: the three tables as loaded from the files
  summary_columns,   \* the columns supply_demand_summary.csv has
  df, summary, tech_df,
  pc,                \* the section of the script the run has reached
  mineral, scenario, view,
  filtered, summary_filtered, base_mineral, tech_filtered,
  kpi, metrics, fig, tech_panel,
  rank_scenario, ranking, ranking_display, raw_data,
  error,             \* the exception that ended the run, "" when none
  rank_seen          \* history: per ranking scenario, the first ranked output
                     \* shown and the mineral selected in that run

tables == <<cache, summary_columns, df, summary, tech_df>>

selections == <<mineral, scenario, view>>

views == <<filtered, summary_filtered, base_mineral, tech_filtered>>

kpis == <<kpi, metrics>>

panels == <<fig, tech_panel>>

rankings == <<rank_scenario, ranking, ranking_display>>

vars ==
  <<tables, pc, selections, views, kpis, panels, rankings, raw_data, error,
    rank_seen>>

Views == {"Supply vs Demand", "Supply-Demand Gap"}

NoKpi ==
  [first_deficit_year |-> NA, max_deficit |-> NA, gap_2030 |-> NA,
   gap_2040 |-> NA]

\* the script's variables before a run has assigned them
Fresh ==
  /\ df = <<>> /\ summary = <<>> /\ tech_df = <<>>
  /\ pc = "load"
  /\ mineral = NA /\ scenario = {} /\ view = ""
  /\ filtered = <<>> /\ summary_filtered = <<>>
  /\ base_mineral = <<>> /\ tech_filtered = <<>>
  /\ kpi = NoKpi /\ metrics = NA
  /\ fig = NA /\ tech_panel = NA
  /\ rank_scenario = NA /\ ranking = <<>> /\ ranking_display = <<>>
  /\ raw_data = NA
  /\ error = ""

----------------------------------------------------------------------------
(* Table helpers *)

\* df[col].unique(): the distinct values of a column (the widgets sort them)
unique(table, col) == {table[i][col] : i \in 1..Len(table)}

\* DataFrame.get(col): the column, or None when the table has no such column
get(table, columns, col) ==
  IF col \in columns THEN Some([i \in 1..Len(table) |-> table[i][col]]) ELSE NA

\* Series.dropna()
dropna(series) == SelectSeq(series, LAMBDA v : v # NA)

\* Series.min(): the least value, missing values skipped; NaN when none is left
series_min(series) ==
  LET vals == {Val(series[i]) : i \in {k \in 1..Len(series) : series[k] # NA}}
  IN IF vals = {} THEN NA
     ELSE Some(CHOOSE v \in vals : \A w \in vals : v <= w)

\* Series.fillna(value) on one cell
fillna(cell, value) == IF cell = NA THEN Some(value) ELSE cell

----------------------------------------------------------------------------
(* Filter datasets (app.py lines 64-79) *)

\* variant: the mineral compared without regard to letter case
filter_rows_ignorecase(table, m, scenarios) ==
  SelectSeq(table,
            LAMBDA r : /\ m # NA
                       /\ Len(r.mineral) = Len(Val(m))
                       /\ \A j \in 1..Len(r.mineral) :
                            lower(r.mineral[j]) = lower(Val(m)[j])
                       /\ r.scenario \in scenarios)

\* table[(table["mineral"] == mineral) & (table["scenario"].isin(scenario))];
\* a selectbox without options returns None, which equals no label
filter_rows(table, m, scenarios) ==
  SelectSeq(table, LAMBDA r : Some(r.mineral) = m /\ r.scenario \in scenarios)

\* mineral.split("-")[0].strip()
base_mineral_of(m) == strip(split_first(m))

\* tech_df[tech_df["mineral"].str.contains(base_mineral, case=False, na=False)
\*         & tech_df["scenario"].isin(scenario)]
filter_tech(table, base, scenarios) ==
  SelectSeq(table,
            LAMBDA r : str_contains(r.mineral, base) /\ r.scenario \in scenarios)

----------------------------------------------------------------------------
(* KPI calculations and indicators (app.py lines 84-109) *)

\* variant: no dropna, one missing cell makes the whole KPI "no value"
safe_min_no_dropna(series) ==
  IF series # NA /\ Val(series) # <<>> /\ dropna(Val(series)) = Val(series)
  THEN series_min(Val(series))
  ELSE NA

safe_min(series) ==
  IF series # NA /\ dropna(Val(series)) # <<>> THEN series_min(Val(series))
  ELSE NA

computeKPIs(table, columns) ==
  [first_deficit_year |-> safe_min(get(table, columns, "first_deficit_year")),
   max_deficit |-> safe_min(get(table, columns, "max_deficit_kt")),
   gap_2030 |-> safe_min(get(table, columns, "gap_2030_kt")),
   gap_2040 |-> safe_min(get(table, columns, "gap_2040_kt"))]

\* Python truthiness of a KPI: None and 0 are false
truthy(v) == v # NA /\ Val(v) # 0

\* st.metric(label, value if kpi else fallback); the values of the model are
\* whole numbers, which int() and the ",.0f" format leave as they are
metric(v, fallback) ==
  IF truthy(v) THEN [number |-> v, text |-> ""]
  ELSE [number |-> NA, text |-> fallback]

indicators(k) ==
  [first_deficit_year |-> metric(k.first_deficit_year, "No deficit"),
   max_deficit |-> metric(k.max_deficit, "0"),
   gap_2030 |-> metric(k.gap_2030, "0"),
   gap_2040 |-> metric(k.gap_2040, "0")]

----------------------------------------------------------------------------
(* Mineral risk ranking (app.py lines 165-193) *)

\* variant: the ranking taken from the rows of the selected mineral only
rank_rows_of_selected(table, rs) ==
  SelectSeq(table, LAMBDA r : Some(r.scenario) = rs /\ Some(r.mineral) = mineral)

\* summary[summary["scenario"] == rank_scenario].copy()
rank_rows(table, rs) == SelectSeq(table, LAMBDA r : Some(r.scenario) = rs)

\* variant: a missing deficit replaced by the large sentinel of the year column
fill_max_deficit_sentinel(cell) == fillna(cell, 9999)

fill_max_deficit(cell) == fillna(cell, 0)

\* variant: a missing year replaced by 0 like a missing deficit
fill_first_deficit_year_zero(cell) == fillna(cell, 0)

fill_first_deficit_year(cell) == fillna(cell, 9999)

\* the two fillna assignments of lines 172-173
substitute(rows) ==
  [i \in 1..Len(rows) |->
     [rows[i] EXCEPT !.max_deficit_kt = fill_max_deficit(@),
                     !.first_deficit_year = fill_first_deficit_year(@)]]

sort_key(r) == <<Val(r.max_deficit_kt), Val(r.first_deficit_year)>>

\* ascending=[True, True] on by=["max_deficit_kt", "first_deficit_year"]
key_lt(k1, k2) == k1[1] < k2[1] \/ (k1[1] = k2[1] /\ k1[2] < k2[2])

key_le(k1, k2) == k1 = k2 \/ key_lt(k1, k2)

remove_at(rows, i) == SubSeq(rows, 1, i - 1) \o SubSeq(rows, i + 1, Len(rows))

\* variant: sorted by max_deficit_kt alone, the second key forgotten
RECURSIVE sort_values_first_key(_)
sort_values_first_key(rows) ==
  IF rows = <<>> THEN <<>>
  ELSE LET i == CHOOSE i \in 1..Len(rows) :
                  \A j \in 1..Len(rows) :
                     /\ j < i => sort_key(rows[i])[1] < sort_key(rows[j])[1]
                     /\ j > i => sort_key(rows[i])[1] <= sort_key(rows[j])[1]
       IN <<rows[i]>> \o sort_values_first_key(remove_at(rows, i))

\* DataFrame.sort_values on two keys: a stable ascending sort (rows with equal
\* keys keep their order)
RECURSIVE sort_values(_)
sort_values(rows) ==
  IF rows = <<>> THEN <<>>
  ELSE LET i == CHOOSE i \in 1..Len(rows) :
                  \A j \in 1..Len(rows) :
                     /\ j < i => key_lt(sort_key(rows[i]), sort_key(rows[j]))
                     /\ j > i => key_le(sort_key(rows[i]), sort_key(rows[j]))
       IN <<rows[i]>> \o sort_values(remove_at(rows, i))

\* variant: range(len(ranking)), the ranks counted from 0
assign_risk_rank_from_zero(rows) ==
  [i \in 1..Len(rows) |->
     [c \in (DOMAIN rows[i]) \cup {"risk_rank"} |->
        IF c = "risk_rank" THEN i - 1 ELSE rows[i][c]]]

\* ranking["risk_rank"] = range(1, len(ranking) + 1)
assign_risk_rank(rows) ==
  [i \in 1..Len(rows) |->
     [c \in (DOMAIN rows[i]) \cup {"risk_rank"} |->
        IF c = "risk_rank" THEN i ELSE rows[i][c]]]

rank_risk(table, rs) ==
  assign_risk_rank(sort_values(substitute(rank_rows(table, rs))))

DisplayColumns ==
  {"risk_rank", "mineral", "first_deficit_year", "max_deficit_kt",
   "gap_2030_kt", "gap_2040_kt"}

\* ranking[[...six columns...]]: the rows keep their index labels
select_display(rows) ==
  [i \in 1..Len(rows) |->
     [c \in DisplayColumns \cup {"index"} |-> rows[i][c]]]

\* variant: no .copy(), the two substitutions written into the summary table
summary_after_ranking_in_place(table, rs) ==
  [k \in 1..Len(table) |->
     IF Some(table[k].scenario) = rs
     THEN [table[k] EXCEPT !.max_deficit_kt = fill_max_deficit(@),
                           !.first_deficit_year = fill_first_deficit_year(@)]
     ELSE table[k]]

\* the summary table once lines 170-180 have run: ranking is a .copy(), so the
\* substitution, the sort and the rank column never reach the table itself
summary_after_ranking(table, rs) == table

----------------------------------------------------------------------------
(* Input files *)

SeriesRow(m, sc) ==
  [mineral |-> m, scenario |-> sc, year |-> 2030,
   demand_kt |-> 7, supply_kt |-> 4, gap_kt |-> 4 - 7]

TechRow(m, sc) ==
  [mineral |-> m, scenario |-> sc, technology |-> <<" ", "e", "v">>,
   year |-> 2030, demand_kt |-> 3]

SummaryRow(m, sc, y, d, g30, g40) ==
  [mineral |-> m, scenario |-> sc, first_deficit_year |-> y,
   max_deficit_kt |-> d, gap_2030_kt |-> g30, gap_2040_kt |-> g40]

\* rows of clean_supply_demand.csv exercising the two equality filters
RawSeriesRows ==
  {SeriesRow(LiPadded, STEPS)}
  \cup {SeriesRow(m, sc) : m \in {Li, LiUpper}, sc \in {STEPS, APS}}

\* rows of supply_demand_summary.csv exercising the two equality filters
RawFilterSummaryRows ==
  {SummaryRow(ms[1], ms[2], Some(2030), Some(0 - 5), NA, Some(1)) :
     ms \in {<<Li, STEPSPadded>>, <<Li, APS>>, <<LiUpper, STEPSPadded>>}}

\* rows of clean_supply_demand.csv offering the minerals of the technology
\* filter: plain, compound (text after a "-"), with a regex metacharacter
RawMineralRows ==
  {SeriesRow(Li, APS)}
  \cup {SeriesRow(m, STEPS) : m \in {Li, LiCompound, LiDot}}

\* rows of tech_demand.csv
RawTechRows ==
  {TechRow(m, sc) : m \in {LiB, LiUpper, Co}, sc \in {STEPS, APS}}

\* rows of supply_demand_summary.csv exercising the ranking keys: deficits
\* missing, negative, zero and positive, years missing and reported, and two
\* rows of a second scenario
RawRankRows ==
  {SummaryRow(IF dy[1] = NA THEN Li ELSE Co, STEPSPadded, dy[2], dy[1],
              IF dy[1] = NA THEN Some(2) ELSE NA, Some(0 - 3)) :
     dy \in {<<NA, NA>>, <<NA, Some(2030)>>, <<Some(0 - 5), Some(2030)>>,
             <<Some(0), NA>>, <<Some(0), Some(2030)>>,
             <<Some(5), Some(2030)>>}}
  \cup {SummaryRow(Co, APS, NA, NA, NA, NA),
        SummaryRow(Li, APS, Some(2030), Some(0 - 5), Some(2), Some(0 - 3))}

\* rows of supply_demand_summary.csv exercising the four KPI columns: each
\* cell missing or reported, the other mineral holding the least values
KpiValues(m, sc) ==
  IF m = Co THEN <<2025, 0 - 9, 0 - 7, 0 - 8>>
  ELSE IF sc = STEPS THEN <<2030, 0 - 5, 2, 0 - 3>>
  ELSE <<2035, 0, 0 - 1, 4>>

KpiRow(m, sc, has) ==
  SummaryRow(m, sc,
             IF has[1] THEN Some(KpiValues(m, sc)[1]) ELSE NA,
             IF has[2] THEN Some(KpiValues(m, sc)[2]) ELSE NA,
             IF has[3] THEN Some(KpiValues(m, sc)[3]) ELSE NA,
             IF has[3] THEN NA ELSE Some(KpiValues(m, sc)[4]))

RawKpiRows ==
  {KpiRow(Li, sc, has) : sc \in {STEPS, APS}, has \in [1..3 -> BOOLEAN]}
  \cup {KpiRow(Co, STEPS, has) :
          has \in {<<TRUE, TRUE, TRUE>>, <<FALSE, FALSE, FALSE>>}}

Files(series, summ, columns, tech) ==
  [series |-> series, summary |-> summ, columns |-> columns, tech |-> tech]

PlainSeries == <<SeriesRow(Li, STEPS), SeriesRow(LiCompound, STEPS)>>

PlainSummary ==
  <<SummaryRow(Li, STEPS, Some(2030), Some(0 - 5), Some(2), NA),
    SummaryRow(Co, STEPS, NA, NA, NA, Some(0 - 3))>>

PlainTech == <<TechRow(LiB, STEPS)>>

\* files every specification starts from: a header-only time-series file, a
\* summary file lacking one of its optional columns, an empty technology file
BaseFiles ==
  {Files(<<>>, PlainSummary, SummaryColumns, PlainTech),
   Files(PlainSeries, PlainSummary, SummaryColumns, PlainTech),
   Files(PlainSeries, <<>>, SummaryColumns, <<>>)}
  \cup {Files(PlainSeries, PlainSummary, SummaryColumns \ {c}, PlainTech) :
          c \in {"first_deficit_year", "max_deficit_kt", "gap_2030_kt",
                 "gap_2040_kt"}}

InitFiles(files) ==
  /\ \E f \in files :
       /\ cache = [df |-> load_supply_demand(f.series),
                   summary |-> load_summary(f.summary, f.columns),
                   tech_df |-> load_tech_demand(f.tech)]
       /\ summary_columns = f.columns
  /\ Fresh
  /\ rank_seen = [rs \in {} |-> NA]

----------------------------------------------------------------------------
(* One run of the script, section by section *)

\* lines 36-38: the three cached loaders hand out the loaded tables
LoadData ==
  /\ pc = "load"
  /\ df' = cache.df
  /\ summary' = cache.summary
  /\ tech_df' = cache.tech_df
  /\ pc' = "sidebar"
  /\ UNCHANGED <<cache, summary_columns, selections, views, kpis, panels,
                 rankings, raw_data, error, rank_seen>>

\* lines 43-59: the selectbox returns one of its options, None when it has
\* none; the multiselect any subset of its options; the radio one of the two
\* views
Sidebar ==
  /\ pc = "sidebar"
  /\ mineral' \in IF unique(df, "mineral") = {} THEN {NA}
                  ELSE {Some(m) : m \in unique(df, "mineral")}
  /\ scenario' \in SUBSET unique(df, "scenario")
  /\ view' \in Views
  /\ pc' = "filter"
  /\ UNCHANGED <<tables, views, kpis, panels, rankings, raw_data, error,
                 rank_seen>>

\* lines 64-79 with a mineral selected
FilterDatasets ==
  /\ pc = "filter"
  /\ mineral # NA
  /\ filtered' = filter_rows(df, mineral, scenario)
  /\ summary_filtered' = filter_rows(summary, mineral, scenario)
  /\ base_mineral' = base_mineral_of(Val(mineral))
  /\ tech_filtered' = filter_tech(tech_df, base_mineral', scenario)
  /\ pc' = "kpi"
  /\ UNCHANGED <<tables, selections, kpis, panels, rankings, raw_data, error,
                 rank_seen>>

\* lines 64-74 with no mineral selected: both equality filters run, then
\* None.split raises AttributeError and the run ends
FilterDatasetsNoMineral ==
  /\ pc = "filter"
  /\ mineral = NA
  /\ filtered' = filter_rows(df, mineral, scenario)
  /\ summary_filtered' = filter_rows(summary, mineral, scenario)
  /\ error' = "AttributeError"
  /\ pc' = "error"
  /\ UNCHANGED <<tables, selections, base_mineral, tech_filtered, kpis,
                 panels, rankings, raw_data, rank_seen>>

\* lines 84-90
KPICalculations ==
  /\ pc = "kpi"
  /\ kpi' = computeKPIs(summary_filtered, summary_columns)
  /\ pc' = "indicators"
  /\ UNCHANGED <<tables, selections, views, metrics, panels, rankings,
                 raw_data, error, rank_seen>>

\* lines 95-109
KPIIndicators ==
  /\ pc = "indicators"
  /\ metrics' = Some(indicators(kpi))
  /\ pc' = "chart"
  /\ UNCHANGED <<tables, selections, views, kpi, panels, rankings, raw_data,
                 error, rank_seen>>

\* lines 114-133
MainVisualization ==
  /\ pc = "chart"
  /\ fig' = Some([kind |-> IF view = "Supply vs Demand" THEN "line" ELSE "bar",
                  data |-> filtered, title |-> Val(mineral)])
  /\ pc' = "tech"
  /\ UNCHANGED <<tables, selections, views, kpis, tech_panel, rankings,
                 raw_data, error, rank_seen>>

\* lines 140-144: tech_filtered.empty
TechnologyNotReported ==
  /\ pc = "tech"
  /\ tech_filtered = <<>>
  /\ tech_panel' = Some([kind |-> "info", data |-> <<>>, title |-> <<>>])
  /\ pc' = "rank_select"
  /\ UNCHANGED <<tables, selections, views, kpis, fig, rankings, raw_data,
                 error, rank_seen>>

\* lines 145-158
TechnologyDrivers ==
  /\ pc = "tech"
  /\ tech_filtered # <<>>
  /\ tech_panel' = Some([kind |-> "area", data |-> tech_filtered,
                         title |-> base_mineral])
  /\ pc' = "rank_select"
  /\ UNCHANGED <<tables, selections, views, kpis, fig, rankings, raw_data,
                 error, rank_seen>>

\* lines 165-168
SelectRankScenario ==
  /\ pc = "rank_select"
  /\ rank_scenario' \in IF unique(summary, "scenario") = {} THEN {NA}
                        ELSE {Some(sc) : sc \in unique(summary, "scenario")}
  /\ pc' = "rank"
  /\ UNCHANGED <<tables, selections, views, kpis, panels, ranking,
                 ranking_display, raw_data, error, rank_seen>>

\* lines 170-180
RiskRanking ==
  /\ pc = "rank"
  /\ {"max_deficit_kt", "first_deficit_year"} \subseteq summary_columns
  /\ ranking' = rank_risk(summary, rank_scenario)
  /\ summary' = summary_after_ranking(summary, rank_scenario)
  /\ pc' = "rank_display"
  /\ UNCHANGED <<cache, summary_columns, df, tech_df, selections, views, kpis,
                 panels, rank_scenario, ranking_display, raw_data, error,
                 rank_seen>>

\* lines 172-173 on a summary file without one of the two sort columns:
\* ranking["max_deficit_kt"] or ranking["first_deficit_year"] raises KeyError
RiskRankingKeyError ==
  /\ pc = "rank"
  /\ ~ ({"max_deficit_kt", "first_deficit_year"} \subseteq summary_columns)
  /\ error' = "KeyError"
  /\ pc' = "error"
  /\ UNCHANGED <<tables, selections, views, kpis, panels, rankings, raw_data,
                 rank_seen>>

\* lines 182-193
RankingDisplay ==
  /\ pc = "rank_display"
  /\ DisplayColumns \ {"risk_rank"} \subseteq summary_columns
  /\ ranking_display' = select_display(ranking)
  /\ rank_seen' =
       IF rank_scenario \in DOMAIN rank_seen THEN rank_seen
       ELSE rank_seen @@
            (rank_scenario :> [mineral |-> mineral, shown |-> ranking_display'])
  /\ pc' = "raw_data"
  /\ UNCHANGED <<tables, selections, views, kpis, panels, rank_scenario,
                 ranking, raw_data, error>>

\* line 182 on a summary file without one of the two gap columns: KeyError
RankingDisplayKeyError ==
  /\ pc = "rank_display"
  /\ ~ (DisplayColumns \ {"risk_rank"} \subseteq summary_columns)
  /\ error' = "KeyError"
  /\ pc' = "error"
  /\ UNCHANGED <<tables, selections, views, kpis, panels, rankings, raw_data,
                 rank_seen>>

\* lines 198-199
RawData ==
  /\ pc = "raw_data"
  /\ raw_data' = Some(filtered)
  /\ pc' = "done"
  /\ UNCHANGED <<tables, selections, views, kpis, panels, rankings, error,
                 rank_seen>>

\* a widget change starts the script again from the top with fresh variables
Rerun ==
  /\ pc \in {"done", "error"}
  /\ df' = <<>> /\ summary' = <<>> /\ tech_df' = <<>>
  /\ pc' = "load"
  /\ mineral' = NA /\ scenario' = {} /\ view' = ""
  /\ filtered' = <<>> /\ summary_filtered' = <<>>
  /\ base_mineral' = <<>> /\ tech_filtered' = <<>>
  /\ kpi' = NoKpi /\ metrics' = NA
  /\ fig' = NA /\ tech_panel' = NA
  /\ rank_scenario' = NA /\ ranking' = <<>> /\ ranking_display' = <<>>
  /\ raw_data' = NA
  /\ error' = ""
  /\ UNCHANGED <<cache, summary_columns, rank_seen>>

Next ==
  \/ LoadData
  \/ Sidebar
  \/ FilterDatasets
  \/ FilterDatasetsNoMineral
  \/ KPICalculations
  \/ KPIIndicators
  \/ MainVisualization
  \/ TechnologyNotReported
  \/ TechnologyDrivers
  \/ SelectRankScenario
  \/ RiskRanking
  \/ RiskRankingKeyError
  \/ RankingDisplay
  \/ RankingDisplayKeyError
  \/ RawData
  \/ Rerun

----------------------------------------------------------------------------
(* Specifications: the same script over four families of input files *)

TwoScenarioSeries == <<SeriesRow(Li, STEPS), SeriesRow(Li, APS)>>

\* time-series and summary files varied, for the two equality filters
FilterFiles ==
  {Files(s, m, SummaryColumns, PlainTech) :
     s \in Tables(RawSeriesRows, MaxSeriesRows),
     m \in Tables(RawFilterSummaryRows, MaxSummaryRows)}

\* selectable minerals and technology file varied, for the technology filter
TechFiles ==
  {Files(s, PlainSummary, SummaryColumns, t) :
     s \in Tables(RawMineralRows, MaxSeriesRows),
     t \in Tables(RawTechRows, MaxTechRows)}

\* summary file varied in its four KPI columns
KpiFiles ==
  {Files(TwoScenarioSeries, m, SummaryColumns, PlainTech) :
     m \in Tables(RawKpiRows, MaxKpiRows)}

\* summary file varied in its two ranking keys
RankFiles ==
  {Files(PlainSeries, m, SummaryColumns, PlainTech) :
     m \in Tables(RawRankRows, MaxRankRows)}

Init == InitFiles(BaseFiles)

InitFilter == InitFiles(BaseFiles \cup FilterFiles)

InitTech == InitFiles(BaseFiles \cup TechFiles)

InitKpi == InitFiles(BaseFiles \cup KpiFiles)

InitRank == InitFiles(BaseFiles \cup RankFiles)

Spec == Init /\ [][Next]_vars

SpecFilter == InitFilter /\ [][Next]_vars

SpecTech == InitTech /\ [][Next]_vars

SpecKpi == InitKpi /\ [][Next]_vars

SpecRank == InitRank /\ [][Next]_vars

----------------------------------------------------------------------------
(* Properties *)

\* the run has passed the two equality filters of lines 64-72
FiltersRun == pc \notin {"load", "sidebar", "filter"}

\* the run has passed the technology filter of lines 74-79
TechFilterRun == FiltersRun /\ mineral # NA

\* the run has passed the KPI calculations of lines 84-90
KpisComputed == TechFilterRun /\ pc # "kpi"

\* the ranked table has been handed to st.dataframe (line 193)
Displayed == pc \in {"raw_data", "done"}

\* pat occurs in text as a literal substring, letter case ignored
ContainsLiteral(text, pat) ==
  \E i \in 0..(Len(text) - Len(pat)) :
      \A j \in 1..Len(pat) : lower(pat[j]) = lower(text[i + j])

\* the row of the source table a row of a derived table came from
Source(table, r) == table[r.index + 1]

Positions(table, keep(_)) == {k \in 1..Len(table) : keep(table[k])}

\* out holds exactly the rows of src that satisfy keep, once each, in the
\* order of src
ExactlyTheRows(out, src, keep(_)) ==
  /\ \A i \in 1..Len(out) :
       /\ out[i].index + 1 \in Positions(src, keep)
       /\ out[i] = Source(src, out[i])
  /\ \A k \in Positions(src, keep) : \E i \in 1..Len(out) : out[i].index + 1 = k
  /\ \A i, j \in 1..Len(out) : i < j => out[i].index < out[j].index

\* C1: the filtered time-series view and the filtered summary view hold exactly
\* the rows of their source table whose mineral equals the selected mineral
\* (exact, case-sensitive) and whose scenario is selected, in source order; no
\* more rows than the source has
C1_FilterExact ==
  FiltersRun =>
    LET keep(r) == mineral # NA /\ r.mineral = Val(mineral)
                   /\ r.scenario \in scenario
    IN /\ ExactlyTheRows(filtered, df, keep)
       /\ ExactlyTheRows(summary_filtered, summary, keep)
       /\ \A i \in 1..Len(filtered) :
            Some(filtered[i].mineral) = mineral
            /\ filtered[i].scenario \in scenario
       /\ Len(filtered) <= Len(df)
       /\ Len(summary_filtered) <= Len(summary)

\* a run that kept some rows of both tables and dropped a row whose mineral
\* differs from the selected one only in case
C1_Witness ==
  /\ FiltersRun
  /\ filtered # <<>>
  /\ summary_filtered # <<>>
  /\ Len(summary_filtered) < Len(summary)
  /\ \E k \in 1..Len(df) :
       /\ Some(df[k].mineral) # mineral
       /\ Len(df[k].mineral) = Len(Val(mineral))
       /\ ContainsLiteral(df[k].mineral, Val(mineral))
       /\ df[k].scenario \in scenario

\* the summary rows of the ranking scenario
InRankScenario(r) == Some(r.scenario) = rank_scenario

\* the sort key of a summary row as the ranking policy states it: a missing
\* max_deficit_kt counts as 0, a missing first_deficit_year as 9999
PolicyKey(r) ==
  <<IF r.max_deficit_kt = NA THEN 0 ELSE Val(r.max_deficit_kt),
    IF r.first_deficit_year = NA THEN 9999 ELSE Val(r.first_deficit_year)>>

PolicyKeyLE(k1, k2) == k1[1] < k2[1] \/ (k1[1] = k2[1] /\ k1[2] <= k2[2])

\* C2: the ranked table is a permutation of the summary rows of the ranking
\* scenario: as many rows, each of them exactly once, and risk_rank runs
\* through exactly 1..N without gap or duplicate
C2_RankingPermutation ==
  Displayed =>
    LET N == Cardinality(Positions(summary, InRankScenario))
    IN /\ Len(ranking_display) = N
       /\ \A k \in Positions(summary, InRankScenario) :
            Cardinality({i \in 1..Len(ranking_display) :
                           ranking_display[i].index + 1 = k}) = 1
       /\ \A i \in 1..Len(ranking_display) :
            /\ ranking_display[i].index + 1 \in Positions(summary, InRankScenario)
            /\ ranking_display[i].mineral
                 = Source(summary, ranking_display[i]).mineral
       /\ {ranking_display[i].risk_rank : i \in 1..Len(ranking_display)} = 1..N
       /\ \A i, j \in 1..Len(ranking_display) :
            i # j => ranking_display[i].risk_rank # ranking_display[j].risk_rank

\* a ranking of two rows, the later one of the summary table ranked first,
\* taken from a summary table that also holds a row of another scenario
C2_Witness ==
  /\ Displayed
  /\ Len(ranking_display) = 2
  /\ Len(summary) > 2
  /\ ranking_display[1].index > ranking_display[2].index

\* C3: in the ranked table a row with a smaller risk_rank has a sort key
\* (missing deficit as 0, missing year as 9999) lexicographically less than or
\* equal to that of a row with a larger risk_rank
C3_RankingOrder ==
  Displayed =>
    \A i, j \in 1..Len(ranking_display) :
       ranking_display[i].risk_rank < ranking_display[j].risk_rank =>
         PolicyKeyLE(PolicyKey(Source(summary, ranking_display[i])),
                     PolicyKey(Source(summary, ranking_display[j])))

\* a ranking that moved a later summary row in front of an earlier one, with
\* a missing value among the keys compared
C3_Witness ==
  /\ Displayed
  /\ \E i, j \in 1..Len(ranking_display) :
       /\ ranking_display[i].risk_rank < ranking_display[j].risk_rank
       /\ ranking_display[i].index > ranking_display[j].index
       /\ Source(summary, ranking_display[i]).max_deficit_kt = NA

KpiColumn ==
  [first_deficit_year |-> "first_deficit_year", max_deficit |-> "max_deficit_kt",
   gap_2030 |-> "gap_2030_kt", gap_2040 |-> "gap_2040_kt"]

\* the summary rows of the selected mineral and the selected scenarios
Selected(r) == Some(r.mineral) = mineral /\ r.scenario \in scenario

\* the reported values of a column over the selected summary rows
Reported(col) ==
  {Val(summary[k][col]) :
     k \in {n \in Positions(summary, Selected) : summary[n][col] # NA}}

\* C5: each of the four KPIs is the minimum of the reported values of its own
\* column over the summary rows of the selected mineral and scenarios,
\* whenever the column reports a value at all; missing cells of the column,
\* and whatever the other three columns hold, do not change it
C5_KpiMinimum ==
  KpisComputed =>
    \A f \in DOMAIN KpiColumn :
       Reported(KpiColumn[f]) # {} =>
         /\ kpi[f] # NA
         /\ Val(kpi[f]) \in Reported(KpiColumn[f])
         /\ \A w \in Reported(KpiColumn[f]) : Val(kpi[f]) <= w

\* two selected summary rows: one column reports two different values, one
\* reports a value in one row only, one reports nothing
C5_Witness ==
  /\ KpisComputed
  /\ Cardinality(Positions(summary, Selected)) = 2
  /\ \E f \in DOMAIN KpiColumn : Cardinality(Reported(KpiColumn[f])) = 2
  /\ \E f \in DOMAIN KpiColumn :
       /\ Cardinality(Reported(KpiColumn[f])) = 1
       /\ \E k \in Positions(summary, Selected) : summary[k][KpiColumn[f]] = NA
  /\ \E f \in DOMAIN KpiColumn : Reported(KpiColumn[f]) = {} /\ kpi[f] = NA

\* C6: with no selected summary row, or a KPI column absent or entirely
\* missing, the KPI is "no value", and the run goes on to render the
\* indicators instead of ending in an error
C6_KpiNeverErrors ==
  /\ KpisComputed =>
       \A f \in DOMAIN KpiColumn :
          (KpiColumn[f] \notin summary_columns \/ Reported(KpiColumn[f]) = {})
          => kpi[f] = NA
  /\ (/\ FiltersRun
      /\ \E f \in DOMAIN KpiColumn :
           KpiColumn[f] \notin summary_columns \/ Reported(KpiColumn[f]) = {})
     => ~ (pc = "error" /\ metrics = NA)

\* C7: the technology filter keeps exactly the technology rows whose mineral
\* contains, as a literal substring and whatever the letter case, the trimmed
\* part of the selected mineral before its first "-", and whose scenario is
\* selected; an empty result leads to the "not reported" notice
C7_TechFilterLiteral ==
  /\ TechFilterRun =>
       LET base == strip(split_first(Val(mineral)))
           keep(r) == ContainsLiteral(r.mineral, base) /\ r.scenario \in scenario
       IN ExactlyTheRows(tech_filtered, tech_df, keep)
  /\ (tech_panel # NA /\ tech_filtered = <<>>) => Val(tech_panel).kind = "info"
  /\ (pc = "tech" /\ tech_filtered = <<>>) => error = ""

\* C8: the ranked table of a run equals the one first shown for the same
\* ranking scenario, whatever mineral, scenarios and view either run selected,
\* and it covers the minerals of every summary row of the ranking scenario
C8_RankingIndependent ==
  Displayed =>
    /\ rank_scenario \in DOMAIN rank_seen
    /\ rank_seen[rank_scenario].shown = ranking_display
    /\ {ranking_display[i].mineral : i \in 1..Len(ranking_display)}
         = {summary[k].mineral : k \in Positions(summary, InRankScenario)}

\* a later run with another mineral selected, ranking a mineral that is not
\* the selected one
C8_Witness ==
  /\ Displayed
  /\ rank_scenario \in DOMAIN rank_seen
  /\ rank_seen[rank_scenario].mineral # mineral
  /\ Len(ranking_display) >= 2
  /\ \E i \in 1..Len(ranking_display) : Some(ranking_display[i].mineral) # mineral

\* what a run over the loaded tables hands to the presenter for given selections
FirstRunOutputs(m, scs, rs) ==
  LET sf == filter_rows(cache.summary, m, scs)
      b == base_mineral_of(Val(m))
  IN [filtered |-> filter_rows(cache.df, m, scs),
      summary_filtered |-> sf,
      tech_filtered |-> filter_tech(cache.tech_df, b, scs),
      kpi |-> computeKPIs(sf, summary_columns),
      ranking_display |-> select_display(rank_risk(cache.summary, rs))]

\* C9: in every run, first or later, the three tables are the tables as
\* loaded, and a completed run hands out what a first run over the loaded
\* tables hands out for the same selections
C9_TablesUntouched ==
  /\ pc # "load" =>
       df = cache.df /\ summary = cache.summary /\ tech_df = cache.tech_df
  /\ pc = "done" =>
       [filtered |-> filtered, summary_filtered |-> summary_filtered,
        tech_filtered |-> tech_filtered, kpi |-> kpi,
        ranking_display |-> ranking_display]
         = FirstRunOutputs(mineral, scenario, rank_scenario)

\* a completed run that follows a run on another ranking scenario and whose
\* ranking replaced a missing value
C9_Witness ==
  /\ pc = "done"
  /\ \E rs \in DOMAIN rank_seen : rs # rank_scenario
  /\ \E i \in 1..Len(ranking_display) :
       Source(summary, ranking_display[i]).max_deficit_kt = NA

\* C10 as stated: the ranked table shows the original max_deficit_kt and
\* first_deficit_year of each row (missing stays missing) and leaves mineral
\* and the two gap columns unchanged
C10_DisplayKeepsOriginal ==
  Displayed =>
    \A i \in 1..Len(ranking_display) :
       LET src == Source(summary, ranking_display[i])
       IN /\ ranking_display[i].max_deficit_kt = src.max_deficit_kt
          /\ ranking_display[i].first_deficit_year = src.first_deficit_year
          /\ ranking_display[i].mineral = src.mineral
          /\ ranking_display[i].gap_2030_kt = src.gap_2030_kt
          /\ ranking_display[i].gap_2040_kt = src.gap_2040_kt

\* C10 as amended: the ranked table shows a reported max_deficit_kt or
\* first_deficit_year as it is and a missing one as its substitute, 0 or
\* 9999; mineral and the two gap columns are unchanged (a missing gap stays
\* missing)
C10_DisplayShowsSubstitutes ==
  Displayed =>
    \A i \in 1..Len(ranking_display) :
       LET src == Source(summary, ranking_display[i])
       IN /\ ranking_display[i].max_deficit_kt
               = IF src.max_deficit_kt = NA THEN Some(0) ELSE src.max_deficit_kt
          /\ ranking_display[i].first_deficit_year
               = IF src.first_deficit_year = NA THEN Some(9999)
                 ELSE src.first_deficit_year
          /\ ranking_display[i].mineral = src.mineral
          /\ ranking_display[i].gap_2030_kt = src.gap_2030_kt
          /\ ranking_display[i].gap_2040_kt = src.gap_2040_kt

\* a ranked row whose deficit, year and one gap are all missing in the summary
\* table, next to a row that reports its deficit and year
C10_Witness ==
  /\ Displayed
  /\ \E i, j \in 1..Len(ranking_display) :
       /\ Source(summary, ranking_display[i]).max_deficit_kt = NA
       /\ Source(summary, ranking_display[i]).first_deficit_year = NA
       /\ Source(summary, ranking_display[i]).gap_2030_kt = NA
       /\ Source(summary, ranking_display[j]).max_deficit_kt # NA
       /\ Source(summary, ranking_display[j]).first_deficit_year # NA

====
